---- MODULE Spec2Model ----
(***************************************************************************)
(* Model of the RAG file-search service (main.py, auth_dependency.py,      *)
(* auth_client.py, gemini_client.py, database.py, migrate_db.py,           *)
(* file_utils.py).                                                         *)
(*                                                                         *)
(* The module holds these state machines:                                  *)
(*   Spec           the request handlers over the two tables and the       *)
(*                  remote document-search service, one request at a time; *)
(*   SpecProcesses  two requests, each in a server process of its own;     *)
(*   SpecLoop       two requests on the event loop of one server process;  *)
(*   SpecRaced      the request handlers, one request at a time, on the    *)
(*                  databases two racing first uploads leave;              *)
(*   SpecUpload     GeminiFileSearchClient.upload_file (the submit and the *)
(*                  poll loop) against every behaviour of the remote       *)
(*                  operation;                                             *)
(*   SpecAuth       verify_token and get_current_user on the answers of    *)
(*                  the auth service;                                      *)
(*   SpecTags       extract_tags_from_text on texts and max_tags;          *)
(*   SpecSchema     init_db on the databases it can find.                  *)
(* Sizes are kept in bytes: file_size_kb = bytes / 1024.0 is exact in      *)
(* binary floating point, so sums and comparisons of file_size_kb are the  *)
(* sums and comparisons of the byte counts.                                *)
(***************************************************************************)
EXTENDS Integers, Sequences, FiniteSets, TLC

\* ------------------------------------------------------------ bounds
\* Requests started in one behaviour.
MaxReqs == 3
\* Request slots; Spec drives slot 1 only.
NumProcs == 2
\* Words of a text handed to the tag extractor, and the largest max_tags.
MaxWords == 4
MaxTags == 2
\* Rows a table holds when init_db runs, and runs of init_db in one behaviour.
MaxRows == 2
MaxRuns == 2

\* ------------------------------------------------- program constants
max_size_kb == 102400
BytesPerKb == 1024
max_wait_time == 300
check_interval == 2
give_up_after == 60

HTTP_200 == 200
HTTP_400 == 400
HTTP_401 == 401
HTTP_404 == 404
HTTP_500 == 500

Tenants == {"A", "B"}
Procs == 1 .. NumProcs
SeqProcs == {1}
\* The slots of two requests in flight at the same time.
ConcProcs == {1, 2}

\* NULL of a nullable column / Python None for a store name; store names
\* handed out by the remote service are 1, 2, ...
NULL == 0
\* No user_storage row for the tenant.
NoRow == -1

\* ------------------------------------------------------ JSON values
JAbsent == [t |-> "absent", s |-> "", n |-> 0]
JNull == [t |-> "null", s |-> "", n |-> 0]
JStr(x) == [t |-> "str", s |-> x, n |-> 0]
JNum(k) == [t |-> "num", s |-> "", n |-> k]
JBool(b) == [t |-> "bool", s |-> "", n |-> IF b THEN 1 ELSE 0]

\* Python truthiness of a scalar JSON value (None for an absent key).
Truthy(v) ==
    CASE v.t = "absent" -> FALSE
      [] v.t = "null" -> FALSE
      [] v.t = "str" -> v.s # ""
      [] v.t = "num" -> v.n # 0
      [] v.t = "bool" -> v.n = 1

\* str(v) of a truthy scalar.
PyStr(v) ==
    CASE v.t = "str" -> v.s
      [] v.t = "num" -> ToString(v.n)
      [] v.t = "bool" -> "True"
      [] OTHER -> "None"

\* The id fields, in the order get_current_user probes them.
FieldNames == <<"user_id", "id", "sub", "userId", "_id", "uid">>

EmptyObj == [i \in 1 .. Len(FieldNames) |-> JAbsent]
Obj1(i, v) == [EmptyObj EXCEPT ![i] = v]
Obj2(i, v, j, w) == [EmptyObj EXCEPT ![i] = v, ![j] = w]

\* dict truthiness of an object of id fields: non-empty.
ObjNonEmpty(o) == \E i \in DOMAIN o : o[i].t # "absent"

\* The value of the "user" key of an identity payload.
UAbsent == [t |-> "absent", s |-> "", o |-> EmptyObj]
UNull == [t |-> "null", s |-> "", o |-> EmptyObj]
UStr(x) == [t |-> "str", s |-> x, o |-> EmptyObj]
UObj(o) == [t |-> "obj", s |-> "", o |-> o]

UserTruthy(u) ==
    CASE u.t = "obj" -> ObjNonEmpty(u.o)
      [] u.t = "str" -> u.s # ""
      [] OTHER -> FALSE

\* An identity payload: the "user" key, the top-level id fields, and whether
\* it holds other top-level keys (email, ...).
Payload(u, top, extra) == [user |-> u, top |-> top, extra |-> extra]

PayloadTruthy(p) == p.user.t # "absent" \/ ObjNonEmpty(p.top) \/ p.extra

\* a.get(f1) or a.get(f2) or ...: the first truthy value of the probe
\* sequence, JAbsent (None) when there is none.
RECURSIVE FirstTruthy(_)
FirstTruthy(vals) ==
    IF vals = <<>> THEN JAbsent
    ELSE IF Truthy(Head(vals)) THEN Head(vals)
    ELSE FirstTruthy(Tail(vals))

ObjVals(o) == [i \in 1 .. Len(FieldNames) |-> o[i]]

\* ---------------------------------------------------- auth_client.py
\* A response of the auth service: a network error, or a status with a body.
NetErr == [net |-> TRUE, status |-> 0]
Http(st) == [net |-> FALSE, status |-> st]

\* verify_result.get("valid") == "true" or verify_result.get("valid") == True
\* (Python: 1 == True holds, so the number 1 compares equal to True).
IsValidFlag(v) ==
    \/ (v.t = "str" /\ v.s = "true")
    \/ (v.t = "bool" /\ v.n = 1)
    \/ (v.t = "num" /\ v.n = 1)

\* AuthClient.get_user_info: the payload, or None.
get_user_info(me) ==
    IF me.resp.net THEN [some |-> FALSE, payload |-> Payload(UAbsent, EmptyObj, FALSE)]
    ELSE IF me.resp.status = HTTP_200 THEN [some |-> TRUE, payload |-> me.payload]
    ELSE [some |-> FALSE, payload |-> Payload(UAbsent, EmptyObj, FALSE)]

\* AuthClient.verify_token: the payload of /auth/me, or None; /auth/me is
\* called only after a valid verify response.
verify_token(verify, me) ==
    IF verify.resp.net THEN [some |-> FALSE, payload |-> Payload(UAbsent, EmptyObj, FALSE), me_called |-> FALSE]
    ELSE IF verify.resp.status = HTTP_200 THEN
        IF ~IsValidFlag(verify.valid)
        THEN [some |-> FALSE, payload |-> Payload(UAbsent, EmptyObj, FALSE), me_called |-> FALSE]
        ELSE [some |-> get_user_info(me).some, payload |-> get_user_info(me).payload, me_called |-> TRUE]
    ELSE [some |-> FALSE, payload |-> Payload(UAbsent, EmptyObj, FALSE), me_called |-> FALSE]

\* ------------------------------------------------ auth_dependency.py
\* get_current_user: status 200 with the tenant key, 401, or 500 when the
\* dependency raises AttributeError (.get / .keys on a value that is no dict).
\* The returned dict is {"user_id": str(user_id), "token": token, **user_info}:
\* the keys of the payload are spread last, so a top-level "user_id" key of
\* the payload replaces the computed string. key is the value handlers read
\* as current_user["user_id"]; user_id is that value when it is a string.
ReturnedKey(p, user_id) ==
    IF p.top[1].t # "absent" THEN p.top[1] ELSE JStr(PyStr(user_id))

Authenticated(key) ==
    [status |-> HTTP_200, user_id |-> IF key.t = "str" THEN key.s ELSE "", key |-> key]

Refused(st) == [status |-> st, user_id |-> "", key |-> JAbsent]

get_current_user(verify, me) ==
    LET info == verify_token(verify, me)
        p == info.payload
        nested == UserTruthy(p.user)
        probe == IF nested THEN ObjVals(p.user.o) \o ObjVals(p.top)
                 ELSE ObjVals(p.top) \o ObjVals(p.top)
        user_id == FirstTruthy(probe)
    IN  IF ~info.some \/ ~PayloadTruthy(p)
        THEN Refused(HTTP_401)
        ELSE IF nested /\ p.user.t # "obj"
        THEN Refused(HTTP_500)
        ELSE IF ~Truthy(user_id)
        THEN IF p.user.t \in {"null", "str"}
             THEN Refused(HTTP_500)
             ELSE Refused(HTTP_401)
        ELSE Authenticated(ReturnedKey(p, user_id))

\* ------------------------------------------------------- inputs
\* str.endswith
EndsWith(s, suf) ==
    /\ Len(s) >= Len(suf)
    /\ SubSeq(s, Len(s) - Len(suf) + 1, Len(s)) = suf

DotTxt == <<".", "t", "x", "t">>

\* An uploaded file: its name, the number of bytes read, and whether the
\* bytes decode as UTF-8.
UFile(name, bytes, utf8) == [filename |-> name, bytes |-> bytes, utf8 |-> utf8]

NoFile == UFile(<<>>, 0, TRUE)

TestFiles ==
    { UFile(<<"a", ".", "t", "x", "t">>, 1 * BytesPerKb, TRUE),
      UFile(<<"e", ".", "t", "x", "t">>, 0, TRUE),
      UFile(<<"b", ".", "t", "x", "t">>, max_size_kb * BytesPerKb, TRUE),
      UFile(<<"b", ".", "t", "x", "t">>, max_size_kb * BytesPerKb + 1, TRUE),
      UFile(<<"a", ".", "p", "d", "f">>, 1 * BytesPerKb, TRUE),
      UFile(<<"t", "x", "t">>, 1 * BytesPerKb, TRUE),
      UFile(<<"a", ".", "t", "x", "t">>, 1 * BytesPerKb, FALSE) }

\* The auth service's answers the handlers are driven with.
VerifyCases ==
    { [resp |-> NetErr, valid |-> JAbsent],
      [resp |-> Http(HTTP_401), valid |-> JBool(TRUE)],
      [resp |-> Http(HTTP_200), valid |-> JBool(FALSE)],
      [resp |-> Http(HTTP_200), valid |-> JAbsent],
      [resp |-> Http(HTTP_200), valid |-> JBool(TRUE)],
      [resp |-> Http(HTTP_200), valid |-> JStr("true")] }

HandlerPayloads ==
    { Payload(UObj(Obj1(2, JStr("A"))), EmptyObj, TRUE),
      Payload(UObj(Obj1(2, JStr("B"))), Obj1(1, JStr("A")), FALSE),
      Payload(UAbsent, Obj1(1, JStr("B")), FALSE),
      Payload(UAbsent, EmptyObj, FALSE),
      Payload(UAbsent, EmptyObj, TRUE),
      Payload(UObj(EmptyObj), EmptyObj, TRUE),
      Payload(UObj(Obj1(2, JStr(""))), EmptyObj, TRUE),
      Payload(UNull, EmptyObj, TRUE),
      Payload(UStr("bob"), EmptyObj, FALSE) }

MeCases ==
    { [resp |-> NetErr, payload |-> Payload(UAbsent, EmptyObj, FALSE)],
      [resp |-> Http(HTTP_500), payload |-> Payload(UAbsent, EmptyObj, FALSE)] }
    \cup { [resp |-> Http(HTTP_200), payload |-> p] : p \in HandlerPayloads }

Ops == {"upload", "prompt", "files", "storage"}

\* ------------------------------------------------------ database.py
\* A file_uploads row. legacy and uploaded_to are history: whether the row
\* predates the file_search_store_name column, and the remote stores its
\* content has been uploaded into.
FileUpload(u, name, kb, store, legacy, into) ==
    [user_id |-> u, file_name |-> name, file_size_kb |-> kb,
     file_search_store_name |-> store, legacy |-> legacy, uploaded_to |-> into]

\* Mutant of RowIds: the query has no filter on user_id.
RowIds_anyTenant(rows, u) == DOMAIN rows

RowIds(rows, u) == {i \in DOMAIN rows : rows[i].user_id = u}

RECURSIVE SumKb(_, _)
SumKb(rows, u) ==
    IF rows = <<>> THEN 0
    ELSE (IF Head(rows).user_id = u THEN Head(rows).file_size_kb ELSE 0)
         + SumKb(Tail(rows), u)

\* The ids of a set of rows in primary-key order.
RECURSIVE InOrder(_, _)
InOrder(n, ids) ==
    IF n = 0 THEN <<>>
    ELSE InOrder(n - 1, ids) \o (IF n \in ids THEN <<n>> ELSE <<>>)

\* total_storage_kb of a tenant, 0 when there is no row (get_user_storage).
TotalKb(storage, u) == IF storage[u] = NoRow THEN 0 ELSE storage[u]

\* Databases the service can start on: empty, or one on which migrate_db
\* added file_search_store_name to a table that already held a row of
\* tenant "A" (the new column is NULL in every existing row).
LegacyRow == FileUpload("A", <<"o", ".", "t", "x", "t">>, 1 * BytesPerKb, NULL, TRUE, {})

InitialDatabases ==
    { [files |-> <<>>, storage |-> [u \in Tenants |-> NoRow]],
      [files |-> <<LegacyRow>>,
       storage |-> [u \in Tenants |-> IF u = "A" THEN LegacyRow.file_size_kb ELSE NoRow]] }

\* How the auth service answered a request (history, for the statements
\* about authentication): the verify call did not answer 200 with a truthy
\* flag; the identity fetch failed; the payload holds no non-empty
\* recognized id field, nested or top-level; or it holds one.
HasRecognizedId(p) ==
    \/ \E i \in DOMAIN p.top : Truthy(p.top[i])
    \/ p.user.t = "obj" /\ \E i \in DOMAIN p.user.o : Truthy(p.user.o[i])

AuthCase(v, me) ==
    IF v.resp.net \/ v.resp.status # HTTP_200 \/ ~Truthy(v.valid) THEN "verify_rejected"
    ELSE IF me.resp.net \/ me.resp.status # HTTP_200 THEN "me_failed"
    ELSE IF ~HasRecognizedId(me.payload) THEN "no_id"
    ELSE "identified"

\* ------------------------------------------------------------ state
VARIABLES
    file_uploads,   \* committed rows of table file_uploads, in id order
    user_storage,   \* committed table user_storage: tenant -> total, or NoRow
    stores,         \* remote stores created so far; a store's name is its index
    req,            \* per request slot: the handler's position and locals
    nreq,           \* requests started
    uploadErr,      \* history: tenant -> some upload of it ended with 500
    upc,            \* GeminiFileSearchClient.upload_file: position
    wait_time,      \* ... its wait_time
    operation_obj,  \* ... the operation object it last fetched
    fetches,        \* ... number of operations.get calls made
    result,         \* ... its return value: "store", "None", or "" (running)
    tmp_exists,     \* ... whether the temporary file exists
    seen,           \* history: the kinds of status the fetches delivered
    last_fetch,     \* history: what the last fetch delivered, "none" before it
    authcall,       \* one authentication: the auth service's answers, the outcome
    tagcall,        \* one extract_tags_from_text call: content, max_tags, tags
    schema          \* the database init_db runs on: tables, columns, row counts

dbvars == <<file_uploads, user_storage>>
mainvars == <<file_uploads, user_storage, stores, req, nreq, uploadErr>>
upvars == <<upc, wait_time, operation_obj, fetches, result, tmp_exists, seen, last_fetch>>
fnvars == <<authcall, tagcall, schema>>
vars == <<file_uploads, user_storage, stores, req, nreq, uploadErr,
          upc, wait_time, operation_obj, fetches, result, tmp_exists, seen, last_fetch,
          authcall, tagcall, schema>>

IdleReq ==
    [pc |-> "idle", op |-> "none", user_id |-> "", file |-> NoFile,
     existing_store_name |-> NULL, file_search_store_name |-> NULL,
     uploaded_store_name |-> NULL, files |-> <<>>, missing |-> <<>>,
     storage_read |-> NoRow, status |-> 0, total_storage_kb |-> 0,
     calls |-> 0, fault |-> "none", auth_case |-> "none",
     files0 |-> <<>>, storage0 |-> [u \in Tenants |-> NoRow]]

\* The request ends with a response status. fault is history: the first
\* failure the request met (an exception, a None), "none" if it met none.
Done(q, st, fault) ==
    [q EXCEPT !.pc = "done", !.status = st,
              !.fault = IF @ = "none" THEN fault ELSE @]

\* An operation object as operations.get returns it.
OpObj(hasdone, done, error) == [has_done |-> hasdone, done |-> done, error |-> error]
NoOp == OpObj(FALSE, FALSE, FALSE)

\* One authentication: the answers of /auth/verify and /auth/me it is given,
\* what verify_token made of them and what get_current_user returned.
AuthCall(verify, me) ==
    [pc |-> "input", verify |-> verify, me |-> me,
     info |-> [some |-> FALSE, me_called |-> FALSE],
     user |-> Refused(0)]

NoAuthCall == AuthCall(CHOOSE v \in VerifyCases : v.resp.net, CHOOSE m \in MeCases : m.resp.net)

InitMain ==
    /\ \E db \in InitialDatabases :
          /\ file_uploads = db.files
          /\ user_storage = db.storage
    /\ stores = <<>>
    /\ req = [r \in Procs |-> IdleReq]
    /\ nreq = 0
    /\ uploadErr = [u \in Tenants |-> FALSE]

InitUpload ==
    /\ upc = "start"
    /\ wait_time = 0
    /\ operation_obj = NoOp
    /\ fetches = 0
    /\ result = ""
    /\ tmp_exists = FALSE
    /\ seen = {}
    /\ last_fetch = "none"

\* One call of extract_tags_from_text: the words the content is made of
\* (joined by single spaces), max_tags, and the list returned.
TagCall(words, max_tags) ==
    [pc |-> "input", words |-> words, max_tags |-> max_tags, tags |-> <<>>]

NoTagCall == [TagCall(<<>>, 0) EXCEPT !.pc = "idle"]

\* A table of the database: whether it exists, its row count, and for
\* file_uploads whether it has the columns file_search_store_name and
\* gemini_file_uri.
Table(exists, rows, store_col, legacy_col) ==
    [exists |-> exists, rows |-> rows, store_col |-> store_col, legacy_col |-> legacy_col]

NoTable == Table(FALSE, 0, FALSE, FALSE)

\* The tables as Base.metadata creates them (database.py 26-46).
NewFileUploads == Table(TRUE, 0, TRUE, FALSE)
NewUserStorage == Table(TRUE, 0, FALSE, FALSE)

\* The database with the history of the init_db runs on it: before is the
\* database before the last run; ok, ok_before tell whether the last run and
\* the one before it returned normally; raised tells whether a statement of
\* the last run raised.
Schema(db) ==
    [db |-> db, before |-> db, runs |-> 0, ok |-> FALSE, ok_before |-> FALSE, raised |-> FALSE]

MigratedSchema == Schema([file_uploads |-> NewFileUploads, user_storage |-> NewUserStorage])

Init ==
    /\ InitMain
    /\ InitUpload
    /\ authcall = NoAuthCall
    /\ tagcall = NoTagCall
    /\ schema = MigratedSchema

\* ----------------------------------------------------------- requests
\* A request arrives: FastAPI resolves get_current_user before the handler
\* body runs; a 401 (or an exception of the dependency, 500) ends it there.
Start(r) ==
    /\ req[r].pc = "idle"
    /\ nreq < MaxReqs
    /\ \E op \in Ops, v \in VerifyCases, me \in MeCases :
          LET auth == get_current_user(v, me)
              q0 == [IdleReq EXCEPT !.op = op,
                                    !.auth_case = AuthCase(v, me),
                                    !.files0 = file_uploads,
                                    !.storage0 = user_storage]
          IN  /\ auth.status = HTTP_200 => auth.key.t = "str" /\ auth.user_id \in Tenants
              /\ \E f \in (IF op = "upload" /\ auth.status = HTTP_200 THEN TestFiles ELSE {NoFile}) :
                    req' = [req EXCEPT ![r] =
                        IF auth.status = HTTP_200
                        THEN [q0 EXCEPT !.pc = op, !.user_id = auth.user_id, !.file = f]
                        ELSE Done(q0, auth.status, "auth")]
    /\ nreq' = nreq + 1
    /\ UNCHANGED <<file_uploads, user_storage, stores, uploadErr>>
    /\ UNCHANGED <<upvars, fnvars>>

\* The response is sent; the slot is free again.
Respond(r) ==
    /\ req[r].pc = "done"
    /\ req' = [req EXCEPT ![r] = IdleReq]
    /\ UNCHANGED <<file_uploads, user_storage, stores, nreq, uploadErr>>
    /\ UNCHANGED <<upvars, fnvars>>

\* ------------------------------------------------- main.py upload_file
\* Mutant of RejectsUpload: the size test is >= instead of >.
RejectsUpload_atLimit(f) ==
    \/ ~EndsWith(f.filename, DotTxt)
    \/ f.bytes >= max_size_kb * BytesPerKb
    \/ ~f.utf8

\* Lines 197-224: the three checks, in order; TRUE when the file is refused.
RejectsUpload(f) ==
    \/ ~EndsWith(f.filename, DotTxt)
    \/ f.bytes > max_size_kb * BytesPerKb
    \/ ~f.utf8

UploadValidate(r) ==
    /\ req[r].pc = "upload"
    /\ req' = [req EXCEPT ![r] =
          IF RejectsUpload(@.file) THEN Done(@, HTTP_400, "none")
          ELSE [@ EXCEPT !.pc = "u_lookup"]]
    /\ UNCHANGED <<file_uploads, user_storage, stores, nreq, uploadErr>>
    /\ UNCHANGED <<upvars, fnvars>>

\* Mutant of FirstStoreNames: the lookup never finds a row.
FirstStoreNames_none(rows, u) == {NULL}

\* db.query(FileUpload).filter(user_id == u, file_search_store_name IS NOT
\* NULL).first(): there is no ORDER BY, so any matching row may come first.
FirstStoreNames(rows, u) ==
    LET names == {rows[i].file_search_store_name : i \in RowIds(rows, u)} \ {NULL}
    IN  IF names = {} THEN {NULL} ELSE names

UploadLookup(r) ==
    /\ req[r].pc = "u_lookup"
    /\ \E name \in FirstStoreNames(file_uploads, req[r].user_id) :
          req' = [req EXCEPT ![r].existing_store_name = name, ![r].pc = "u_store"]
    /\ UNCHANGED <<file_uploads, user_storage, stores, nreq, uploadErr>>
    /\ UNCHANGED <<upvars, fnvars>>

\* Mutant of GetOrCreateStore: create-if-absent, a store the remote service
\* already holds for the tenant is reused.
GetOrCreateStore_ifAbsent(r, to) ==
    LET mine == {i \in DOMAIN stores : stores[i].owner = req[r].user_id}
    IN  \/ /\ req[r].existing_store_name # NULL
           /\ req' = [req EXCEPT ![r].file_search_store_name = req[r].existing_store_name,
                                 ![r].pc = to]
           /\ UNCHANGED stores
        \/ /\ req[r].existing_store_name = NULL
           /\ mine # {}
           /\ req' = [req EXCEPT ![r].file_search_store_name = CHOOSE i \in mine : TRUE,
                                 ![r].calls = @ + 1,
                                 ![r].pc = to]
           /\ UNCHANGED stores
        \/ /\ req[r].existing_store_name = NULL
           /\ mine = {}
           /\ stores' = Append(stores, [owner |-> req[r].user_id, by |-> req[r].op])
           /\ req' = [req EXCEPT ![r].file_search_store_name = Len(stores) + 1,
                                 ![r].calls = @ + 1,
                                 ![r].pc = to]
        \/ /\ req[r].existing_store_name = NULL
           /\ req' = [req EXCEPT ![r] = Done([@ EXCEPT !.calls = @ + 1], HTTP_500, "create")]
           /\ UNCHANGED stores

\* gemini_client.get_or_create_file_search_store: the existing name with no
\* remote call, else one file_search_stores.create call, which returns the
\* new store's name or raises. Leaves the slot at `to`, or at "raised".
GetOrCreateStore(r, to) ==
    \/ /\ req[r].existing_store_name # NULL
       /\ req' = [req EXCEPT ![r].file_search_store_name = req[r].existing_store_name,
                             ![r].pc = to]
       /\ UNCHANGED stores
    \/ /\ req[r].existing_store_name = NULL
       /\ stores' = Append(stores, [owner |-> req[r].user_id, by |-> req[r].op])
       /\ req' = [req EXCEPT ![r].file_search_store_name = Len(stores) + 1,
                             ![r].calls = @ + 1,
                             ![r].pc = to]
    \/ /\ req[r].existing_store_name = NULL
       /\ req' = [req EXCEPT ![r] = Done([@ EXCEPT !.calls = @ + 1], HTTP_500, "create")]
       /\ UNCHANGED stores

\* Whether the request in slot r ends with 500 in this step.
Ends500(r) == req'[r].pc = "done" /\ req'[r].status = HTTP_500

MarkUploadErr(r) ==
    uploadErr' = IF Ends500(r) THEN [uploadErr EXCEPT ![req[r].user_id] = TRUE]
                 ELSE uploadErr

UploadResolveStore(r) ==
    /\ req[r].pc = "u_store"
    /\ GetOrCreateStore(r, "u_upload")
    /\ MarkUploadErr(r)
    /\ UNCHANGED <<file_uploads, user_storage, nreq>>
    /\ UNCHANGED <<upvars, fnvars>>

\* What gemini_client.upload_file returns: the store name, or None.
UploadResults == {"store", "None"}

\* Mutant of UploadFailed: a None from upload_file goes unnoticed.
UploadFailed_never(res) == FALSE

\* Line 249: `if not uploaded_store_name`.
UploadFailed(res) == res = "None"

\* Lines 244-253: None from upload_file is answered with HTTPException 500.
UploadDocument(r) ==
    /\ req[r].pc = "u_upload"
    /\ \E res \in UploadResults :
          LET q == [req[r] EXCEPT
                      !.uploaded_store_name =
                          IF res = "None" THEN NULL ELSE req[r].file_search_store_name,
                      !.fault = IF res = "None" THEN "upload" ELSE @,
                      !.calls = @ + 1]
          IN  req' = [req EXCEPT ![r] =
                  IF UploadFailed(res) THEN Done(q, HTTP_500, "upload")
                  ELSE [q EXCEPT !.pc = "u_insert"]]
    /\ MarkUploadErr(r)
    /\ UNCHANGED <<file_uploads, user_storage, stores, nreq>>
    /\ UNCHANGED <<upvars, fnvars>>

\* db.commit() succeeds, or raises after which the except branch rolls back.
CommitResults == {"ok", "raise"}

\* Lines 263-275: the row is added and committed on its own.
UploadInsert(r) ==
    /\ req[r].pc = "u_insert"
    /\ \E c \in CommitResults :
          IF c = "ok"
          THEN /\ file_uploads' = Append(file_uploads,
                      FileUpload(req[r].user_id, req[r].file.filename, req[r].file.bytes,
                                 req[r].uploaded_store_name, FALSE,
                                 {req[r].uploaded_store_name} \ {NULL}))
               /\ req' = [req EXCEPT ![r].pc = "u_storage"]
          ELSE /\ file_uploads' = file_uploads
               /\ req' = [req EXCEPT ![r] = Done(@, HTTP_500, "insert_commit")]
    /\ MarkUploadErr(r)
    /\ UNCHANGED <<user_storage, stores, nreq>>
    /\ UNCHANGED <<upvars, fnvars>>

\* Line 278: the tenant's user_storage row is read.
UploadStorageRead(r) ==
    /\ req[r].pc = "u_storage"
    /\ req' = [req EXCEPT ![r].storage_read = user_storage[req[r].user_id],
                          ![r].pc = "u_commit"]
    /\ UNCHANGED <<file_uploads, user_storage, stores, nreq, uploadErr>>
    /\ UNCHANGED <<upvars, fnvars>>

\* Mutant of NewTotal: the increment is dropped, the total is overwritten.
NewTotal_overwrites(read, kb) == kb

\* Lines 279-287: the total the second commit writes.
NewTotal(read, kb) == IF read = NoRow THEN kb ELSE read + kb

\* Lines 279-299: the row is seeded or incremented and committed; the
\* response reports the committed total. The INSERT of a seed row fails on
\* the unique user_id when a row exists by now.
UploadStorageWrite(r) ==
    /\ req[r].pc = "u_commit"
    /\ \E c \in CommitResults :
          LET u == req[r].user_id
              clash == req[r].storage_read = NoRow /\ user_storage[u] # NoRow
          IN  IF c = "ok" /\ ~clash
              THEN /\ user_storage' = [user_storage EXCEPT
                          ![u] = NewTotal(req[r].storage_read, req[r].file.bytes)]
                   /\ req' = [req EXCEPT ![r] =
                          Done([@ EXCEPT !.total_storage_kb = user_storage'[u]],
                               HTTP_200, "none")]
              ELSE /\ user_storage' = user_storage
                   /\ req' = [req EXCEPT ![r] =
                          Done(@, HTTP_500, IF clash THEN "seed_clash" ELSE "storage_commit")]
    /\ MarkUploadErr(r)
    /\ UNCHANGED <<file_uploads, stores, nreq>>
    /\ UNCHANGED <<upvars, fnvars>>

\* ---------------------------------------------- main.py process_prompt
\* Lines 355-364: all rows of the tenant are loaded; none is a 404.
\* Mutant of NoDocuments: the empty check is lost.
NoDocuments_never(files) == FALSE

\* Line 360: `if not files`.
NoDocuments(files) == files = <<>>

AskLoadFiles(r) ==
    /\ req[r].pc = "prompt"
    /\ LET ids == RowIds(file_uploads, req[r].user_id)
       IN  req' = [req EXCEPT ![r] =
              IF NoDocuments(InOrder(Len(file_uploads), ids)) THEN Done(@, HTTP_404, "none")
              ELSE [@ EXCEPT !.files = InOrder(Len(file_uploads), ids),
                             !.pc = "p_lookup"]]
    /\ UNCHANGED <<file_uploads, user_storage, stores, nreq, uploadErr>>
    /\ UNCHANGED <<upvars, fnvars>>

AskLookup(r) ==
    /\ req[r].pc = "p_lookup"
    /\ \E name \in FirstStoreNames(file_uploads, req[r].user_id) :
          req' = [req EXCEPT ![r].existing_store_name = name, ![r].pc = "p_store"]
    /\ UNCHANGED <<file_uploads, user_storage, stores, nreq, uploadErr>>
    /\ UNCHANGED <<upvars, fnvars>>

\* Lines 384-387: the loaded rows whose store name is empty or differs from
\* the resolved one.
MissingFromStore(rows, files, name) ==
    SelectSeq(files, LAMBDA i :
        rows[i].file_search_store_name = NULL \/ rows[i].file_search_store_name # name)

\* Lines 377-380: the store is resolved; an exception of the creation is
\* answered with 500 by the handler's last except branch.
AskResolveStore(r) ==
    /\ req[r].pc = "p_store"
    /\ GetOrCreateStore(r, "p_missing")
    /\ UNCHANGED <<file_uploads, user_storage, nreq, uploadErr>>
    /\ UNCHANGED <<upvars, fnvars>>

AskFindMissing(r) ==
    /\ req[r].pc = "p_missing"
    /\ req' = [req EXCEPT ![r].missing =
                  MissingFromStore(file_uploads, req[r].files, req[r].file_search_store_name),
                          ![r].pc = "p_heal"]
    /\ UNCHANGED <<file_uploads, user_storage, stores, nreq, uploadErr>>
    /\ UNCHANGED <<upvars, fnvars>>

\* Lines 390-400, one iteration: the row's content is uploaded into the
\* resolved store; on success the row takes the store name and the change
\* is committed, on None the row is left as it is and the loop goes on.
AskReupload(r) ==
    /\ req[r].pc = "p_heal"
    /\ req[r].missing # <<>>
    /\ \E res \in UploadResults, c \in CommitResults :
          LET i == Head(req[r].missing)
              name == req[r].file_search_store_name
              q == [req[r] EXCEPT !.calls = @ + 1]
          IN  IF res = "None"
              THEN /\ c = "ok"
                   /\ file_uploads' = file_uploads
                   /\ req' = [req EXCEPT ![r] = [q EXCEPT !.missing = Tail(@)]]
              ELSE IF c = "ok"
              THEN /\ file_uploads' = [file_uploads EXCEPT
                          ![i].file_search_store_name = name,
                          ![i].uploaded_to = @ \cup {name}]
                   /\ req' = [req EXCEPT ![r] = [q EXCEPT !.missing = Tail(@)]]
              ELSE /\ file_uploads' = file_uploads
                   /\ req' = [req EXCEPT ![r] = Done(q, HTTP_500, "heal_commit")]
    /\ UNCHANGED <<user_storage, stores, nreq, uploadErr>>
    /\ UNCHANGED <<upvars, fnvars>>

\* What gemini_client.search_and_respond does: returns the text, or raises.
SearchResults == {"text", "raise"}

\* Lines 404-426: one generation request against the resolved store.
AskSearch(r) ==
    /\ req[r].pc = "p_heal"
    /\ req[r].missing = <<>>
    /\ \E res \in SearchResults :
          req' = [req EXCEPT ![r] =
              Done([@ EXCEPT !.calls = @ + 1],
                   IF res = "text" THEN HTTP_200 ELSE HTTP_500,
                   IF res = "text" THEN "none" ELSE "generate")]
    /\ UNCHANGED <<file_uploads, user_storage, stores, nreq, uploadErr>>
    /\ UNCHANGED <<upvars, fnvars>>

\* ------------------------------- main.py get_user_files, get_user_storage
GetUserFiles(r) ==
    /\ req[r].pc = "files"
    /\ req' = [req EXCEPT ![r] =
          Done([@ EXCEPT !.files = InOrder(Len(file_uploads), RowIds(file_uploads, req[r].user_id))],
               HTTP_200, "none")]
    /\ UNCHANGED <<file_uploads, user_storage, stores, nreq, uploadErr>>
    /\ UNCHANGED <<upvars, fnvars>>

GetUserStorage(r) ==
    /\ req[r].pc = "storage"
    /\ req' = [req EXCEPT ![r] =
          Done([@ EXCEPT !.total_storage_kb = TotalKb(user_storage, req[r].user_id)],
               HTTP_200, "none")]
    /\ UNCHANGED <<file_uploads, user_storage, stores, nreq, uploadErr>>
    /\ UNCHANGED <<upvars, fnvars>>

\* ------------------------------------------------------ specification
Handler(r) ==
    \/ Start(r)
    \/ UploadValidate(r)
    \/ UploadLookup(r)
    \/ UploadResolveStore(r)
    \/ UploadDocument(r)
    \/ UploadInsert(r)
    \/ UploadStorageRead(r)
    \/ UploadStorageWrite(r)
    \/ AskLoadFiles(r)
    \/ AskLookup(r)
    \/ AskResolveStore(r)
    \/ AskFindMissing(r)
    \/ AskReupload(r)
    \/ AskSearch(r)
    \/ GetUserFiles(r)
    \/ GetUserStorage(r)
    \/ Respond(r)

\* One request at a time.
Next == \E r \in SeqProcs : Handler(r)

Spec == Init /\ [][Next]_vars

\* ------------------------------------------- requests in flight together
\* Two server processes of the app on the one database and the one remote
\* service, a request in each: the steps of the two handlers interleave at
\* every database statement and remote call.
\* A step of one of the requests in flight together: there is one request
\* per slot, and each is let in by the auth service.
Admitted(r) ==
    /\ req[r].pc = "idle" => nreq < Cardinality(ConcProcs)
    /\ Handler(r)
    /\ req'[r].auth_case \in {"none", "identified"}

NextProcesses == \E r \in ConcProcs : Admitted(r)

SpecProcesses == Init /\ [][NextProcesses]_vars

\* Two requests in one server process. The handlers are coroutines of one
\* event loop and give it up only at an await: get_current_user awaits the
\* auth service before the body starts, upload_file awaits file.read() (line
\* 205); every database and gemini_client call after that is an ordinary
\* blocking call (time.sleep in the poll loop included). Holding: the body
\* is past its last await and has not returned.
Holding(r) == req[r].pc \notin {"idle", "upload", "prompt", "files", "storage", "done"}

LoopStep(r) ==
    /\ \A q \in ConcProcs \ {r} : ~Holding(q)
    /\ Admitted(r)

NextLoop == \E r \in ConcProcs : LoopStep(r)

SpecLoop == Init /\ [][NextLoop]_vars

\* ---------------------------------------- requests after a store race
\* The databases two racing first uploads of tenant "A" leave behind (two
\* uploads of a.txt on the empty database, each under the store it created,
\* the storage writes one after the other): the rows in either commit order.
RacedDatabases ==
    { [files |-> << FileUpload("A", <<"a", ".", "t", "x", "t">>, 1 * BytesPerKb, n, FALSE, {n}),
                    FileUpload("A", <<"a", ".", "t", "x", "t">>, 1 * BytesPerKb, 3 - n, FALSE, {3 - n}) >>,
       storage |-> [u \in Tenants |-> IF u = "A" THEN 2 * BytesPerKb ELSE NoRow]] : n \in {1, 2} }

InitRaced ==
    /\ \E db \in RacedDatabases :
          /\ file_uploads = db.files
          /\ user_storage = db.storage
    /\ stores = << [owner |-> "A", by |-> "upload"], [owner |-> "A", by |-> "upload"] >>
    /\ req = [r \in Procs |-> IdleReq]
    /\ nreq = 0
    /\ uploadErr = [u \in Tenants |-> FALSE]
    /\ InitUpload
    /\ authcall = NoAuthCall
    /\ tagcall = NoTagCall
    /\ schema = MigratedSchema

\* The handlers, one request at a time, on such a database.
SpecRaced == InitRaced /\ [][Next]_vars

\* ------------------------------ gemini_client.py upload_file, in steps
\* What operations.get can deliver: an exception, or an operation object
\* with or without a done attribute, done or not, with or without an error.
OpObjs ==
    {OpObj(TRUE, d, e) : d \in BOOLEAN, e \in BOOLEAN} \cup {OpObj(FALSE, FALSE, FALSE)}

Kind(o) ==
    IF ~o.has_done THEN "nodone"
    ELSE IF o.error THEN "error"
    ELSE IF o.done THEN "done"
    ELSE "pending"

\* upload_file returns: the finally clause removes the temporary file when
\* the inner try was entered.
Return(val, cleanup) ==
    /\ result' = val
    /\ upc' = "returned"
    /\ tmp_exists' = IF cleanup THEN FALSE ELSE tmp_exists

\* Lines 39-41: the temporary file is created (delete=False) and written;
\* an exception of the write reaches the outer except, outside the inner
\* try whose finally unlinks the file.
UpStage ==
    /\ upc = "start"
    /\ \/ /\ upc' = "staged"
          /\ tmp_exists' = TRUE
          /\ result' = result
       \/ /\ upc' = "returned"
          /\ tmp_exists' = TRUE
          /\ result' = "None"
    /\ UNCHANGED <<wait_time, operation_obj, fetches, seen, last_fetch>>
    /\ UNCHANGED <<mainvars, fnvars>>

\* Lines 47-75: the submission raises, returns None (taken as synchronous
\* completion), or names the background operation.
UpSubmit ==
    /\ upc = "staged"
    /\ \/ Return("None", TRUE)
       \/ Return("store", TRUE)
       \/ /\ upc' = "submitted"
          /\ UNCHANGED <<result, tmp_exists>>
    /\ UNCHANGED <<wait_time, operation_obj, fetches, seen, last_fetch>>
    /\ UNCHANGED <<mainvars, fnvars>>

\* Lines 79-103: the first operations.get; an exception, or an object
\* without a done attribute, is taken as completion.
UpFirstGet ==
    /\ upc = "submitted"
    /\ fetches' = fetches + 1
    /\ wait_time' = 0
    /\ \/ /\ seen' = seen \cup {"raise"}
          /\ last_fetch' = "raise"
          /\ operation_obj' = operation_obj
          /\ Return("store", TRUE)
       \/ \E o \in OpObjs :
             /\ seen' = seen \cup {Kind(o)}
             /\ last_fetch' = Kind(o)
             /\ operation_obj' = o
             /\ IF ~o.has_done THEN Return("store", TRUE)
                ELSE /\ upc' = "loop"
                     /\ UNCHANGED <<result, tmp_exists>>
    /\ UNCHANGED <<mainvars, fnvars>>

\* Mutant of TimedOut: > instead of >=.
TimedOut_late(w) == w > max_wait_time

\* Line 106: the loop gives up when the wait has reached the ceiling.
TimedOut(w) == w >= max_wait_time

\* Lines 105-108 and 132-140: the loop condition, the timeout test, and
\* the return after the loop. Reading .done of an object without that
\* attribute raises into the outer except.
UpLoopHead ==
    /\ upc = "loop"
    /\ IF ~operation_obj.has_done THEN Return("None", TRUE)
       ELSE IF operation_obj.done
       THEN Return(IF operation_obj.error THEN "None" ELSE "store", TRUE)
       ELSE IF TimedOut(wait_time) THEN Return("None", TRUE)
       ELSE /\ upc' = "sleep"
            /\ UNCHANGED <<result, tmp_exists>>
    /\ UNCHANGED <<wait_time, operation_obj, fetches, seen, last_fetch>>
    /\ UNCHANGED <<mainvars, fnvars>>

\* Line 129: a fetch that failed ends the call once the wait exceeds this.
GivesUp(w) == w > give_up_after

\* Lines 110-130: sleep, count the interval, fetch the status again.
UpPoll ==
    /\ upc = "sleep"
    /\ wait_time' = wait_time + check_interval
    /\ fetches' = fetches + 1
    /\ \/ /\ seen' = seen \cup {"raise"}
          /\ last_fetch' = "raise"
          /\ operation_obj' = operation_obj
          /\ IF GivesUp(wait_time') THEN Return("None", TRUE)
             ELSE /\ upc' = "loop"
                  /\ UNCHANGED <<result, tmp_exists>>
       \/ \E o \in OpObjs :
             /\ seen' = seen \cup {Kind(o)}
             /\ last_fetch' = Kind(o)
             /\ operation_obj' = o
             /\ IF ~o.has_done
                THEN IF GivesUp(wait_time') THEN Return("None", TRUE)
                     ELSE /\ upc' = "loop"
                          /\ UNCHANGED <<result, tmp_exists>>
                ELSE IF o.error THEN Return("None", TRUE)
                ELSE /\ upc' = "loop"
                     /\ UNCHANGED <<result, tmp_exists>>
    /\ UNCHANGED <<mainvars, fnvars>>

NextUpload == UpStage \/ UpSubmit \/ UpFirstGet \/ UpLoopHead \/ UpPoll

\* The call runs on its own thread of control: every step it can take, it
\* takes (time.sleep returns).
SpecUpload == Init /\ [][NextUpload]_vars /\ WF_vars(NextUpload)

\* ------------------------- auth_client.py, auth_dependency.py as functions
\* The answers of /auth/verify one authentication is checked against: every
\* transport outcome with every value of the "valid" key.
ValidFlags ==
    { JAbsent, JNull, JBool(TRUE), JBool(FALSE), JStr("true"), JStr("True"),
      JStr("1"), JStr(""), JNum(1), JNum(0) }

AllVerifyCases ==
    { [resp |-> rs, valid |-> fl] :
        rs \in {NetErr, Http(HTTP_200), Http(HTTP_401), Http(HTTP_500)}, fl \in ValidFlags }

\* Values an id field of the identity payload can hold, and the objects of
\* id fields built from them: none, one field, or two fields.
IdValues == {JStr("A"), JStr("B"), JStr(""), JNum(7), JNum(0), JNull}

IdObjs ==
    {EmptyObj}
    \cup { Obj1(i, v) : i \in DOMAIN FieldNames, v \in IdValues }
    \cup { Obj2(i, v, j, JStr("B")) :
              i \in {1, 3, 6}, j \in {2, 5}, v \in {JStr("A"), JStr(""), JNum(0)} }

AllPayloads ==
    { Payload(u, top, extra) :
        u \in {UAbsent, UNull, UStr("bob")} \cup {UObj(o) : o \in IdObjs},
        top \in IdObjs, extra \in BOOLEAN }

AllMeCases ==
    { [resp |-> rs, payload |-> p] : rs \in {Http(HTTP_200)}, p \in AllPayloads }
    \cup { m \in MeCases : m.resp.net \/ m.resp.status # HTTP_200 }

\* Every verify answer with the identity answers of the handlers, and every
\* identity answer after a verify that succeeds.
AuthInputs ==
    { AuthCall(v, me) : v \in AllVerifyCases, me \in MeCases }
    \cup { AuthCall(v, me) :
              v \in {[resp |-> Http(HTTP_200), valid |-> JBool(TRUE)]},
              me \in AllMeCases }

InitAuth ==
    /\ InitMain
    /\ InitUpload
    /\ authcall \in AuthInputs
    /\ tagcall = NoTagCall
    /\ schema = MigratedSchema

\* AuthClient.verify_token runs on the answers.
VerifyToken ==
    /\ authcall.pc = "input"
    /\ LET info == verify_token(authcall.verify, authcall.me)
       IN  authcall' = [authcall EXCEPT
                !.pc = "verified",
                !.info = [some |-> info.some, me_called |-> info.me_called]]
    /\ UNCHANGED <<mainvars, upvars, tagcall, schema>>

\* get_current_user turns what verify_token returned into the tenant key
\* or an error response.
GetCurrentUser ==
    /\ authcall.pc = "verified"
    /\ authcall' = [authcall EXCEPT
            !.pc = "done",
            !.user = get_current_user(authcall.verify, authcall.me)]
    /\ UNCHANGED <<mainvars, upvars, tagcall, schema>>

NextAuth == VerifyToken \/ GetCurrentUser

SpecAuth == InitAuth /\ [][NextAuth]_vars

\* ------------------------------- file_utils.py extract_tags_from_text
\* A text is a sequence of one-character strings.
UpperCase == <<"A", "B", "C", "D", "E", "F", "G", "H", "I", "J", "K", "L", "M",
              "N", "O", "P", "Q", "R", "S", "T", "U", "V", "W", "X", "Y", "Z">>
LowerCase == <<"a", "b", "c", "d", "e", "f", "g", "h", "i", "j", "k", "l", "m",
              "n", "o", "p", "q", "r", "s", "t", "u", "v", "w", "x", "y", "z">>

\* content.lower(), character by character.
Lower(c) ==
    IF \E i \in DOMAIN UpperCase : UpperCase[i] = c
    THEN LowerCase[CHOOSE i \in DOMAIN UpperCase : UpperCase[i] = c]
    ELSE c

Letters == {LowerCase[i] : i \in DOMAIN LowerCase}

\* The characters \w matches (what \b tells apart from the rest).
WordChars ==
    Letters \cup {UpperCase[i] : i \in DOMAIN UpperCase}
            \cup {"0", "1", "2", "3", "4", "5", "6", "7", "8", "9", "_"}

\* The maximal runs of word characters of a text, in order; run is the run
\* being read.
RECURSIVE WordRuns(_, _)
WordRuns(text, run) ==
    IF text = <<>> THEN (IF run = <<>> THEN <<>> ELSE <<run>>)
    ELSE IF Head(text) \in WordChars THEN WordRuns(Tail(text), Append(run, Head(text)))
    ELSE (IF run = <<>> THEN <<>> ELSE <<run>>) \o WordRuns(Tail(text), <<>>)

\* re.findall(r'\b[a-z]{3,}\b', text): a match starts and ends at a word
\* boundary, so it is a whole run of word characters, all of them a-z and at
\* least three.
FindAll(text) ==
    SelectSeq(WordRuns(text, <<>>),
              LAMBDA w : Len(w) >= 3 /\ \A i \in DOMAIN w : w[i] \in Letters)

stop_words ==
    { <<"t", "h", "e">>, <<"a">>, <<"a", "n">>, <<"a", "n", "d">>, <<"o", "r">>,
      <<"b", "u", "t">>, <<"i", "n">>, <<"o", "n">>, <<"a", "t">>, <<"t", "o">>,
      <<"f", "o", "r">>, <<"o", "f">>, <<"w", "i", "t", "h">>, <<"b", "y">>,
      <<"f", "r", "o", "m">>, <<"a", "s">>, <<"i", "s">>, <<"w", "a", "s">>, <<"a", "r", "e">>,
      <<"w", "e", "r", "e">>, <<"b", "e", "e", "n">>, <<"b", "e">>, <<"h", "a", "v", "e">>,
      <<"h", "a", "s">>, <<"h", "a", "d">>, <<"d", "o">>, <<"d", "o", "e", "s">>,
      <<"d", "i", "d">>, <<"w", "i", "l", "l">>, <<"w", "o", "u", "l", "d">>,
      <<"s", "h", "o", "u", "l", "d">>, <<"c", "o", "u", "l", "d">>, <<"m", "a", "y">>,
      <<"m", "i", "g", "h", "t">>, <<"m", "u", "s", "t">>, <<"c", "a", "n">>,
      <<"t", "h", "i", "s">>, <<"t", "h", "a", "t">>, <<"t", "h", "e", "s", "e">>,
      <<"t", "h", "o", "s", "e">>, <<"i", "t">>, <<"i", "t", "s">>, <<"t", "h", "e", "y">>,
      <<"t", "h", "e", "m">>, <<"t", "h", "e", "i", "r">>, <<"t", "h", "e", "r", "e">> }

Counted_anyLength(word) == word \notin stop_words

\* if word not in stop_words and len(word) > 3
Counted(word) == word \notin stop_words /\ Len(word) > 3

\* word_freq after the loop over words: a dict keeps its keys in insertion
\* order, so it is the sequence of (word, count) in first-seen order.
RECURSIVE WordFreq(_, _)
WordFreq(words, freq) ==
    IF words = <<>> THEN freq
    ELSE LET word == Head(words)
             at == {i \in DOMAIN freq : freq[i].word = word}
         IN  IF ~Counted(word) THEN WordFreq(Tail(words), freq)
             ELSE IF at = {} THEN WordFreq(Tail(words), Append(freq, [word |-> word, n |-> 1]))
             ELSE WordFreq(Tail(words),
                           [i \in DOMAIN freq |->
                               IF i \in at THEN [freq[i] EXCEPT !.n = @ + 1] ELSE freq[i]])

\* sorted(items, key=count, reverse=True): stable, so items of equal count
\* keep their order. Each item goes behind the items counting at least as
\* much as it does.
RECURSIVE SortedByCount(_)
SortedByCount(items) ==
    IF items = <<>> THEN <<>>
    ELSE LET front == SortedByCount(SubSeq(items, 1, Len(items) - 1))
             it == items[Len(items)]
             k == Cardinality({i \in DOMAIN front : front[i].n >= it.n})
         IN  SubSeq(front, 1, k) \o <<it>> \o SubSeq(front, k + 1, Len(front))

extract_tags_from_text(content, max_tags) ==
    LET content_lower == [i \in DOMAIN content |-> Lower(content[i])]
        words == FindAll(content_lower)
        sorted_tags == SortedByCount(WordFreq(words, <<>>))
        n == IF max_tags < Len(sorted_tags) THEN max_tags ELSE Len(sorted_tags)
    IN  [i \in 1 .. n |-> sorted_tags[i].word]

\* The words texts are made of: three that count, one of them also
\* capitalised, a stop word, a word of three letters, a word run with a digit.
Vocabulary ==
    { <<"a", "l", "p", "h", "a">>, <<"b", "e", "t", "a">>, <<"B", "e", "t", "a">>,
      <<"g", "a", "m", "m", "a">>, <<"t", "h", "a", "t">>, <<"c", "a", "t">>,
      <<"b", "e", "t", "a", "1">> }

RECURSIVE Join(_)
Join(words) ==
    IF words = <<>> THEN <<>>
    ELSE IF Len(words) = 1 THEN Head(words)
    ELSE Head(words) \o <<" ">> \o Join(Tail(words))

InitTags ==
    /\ InitMain
    /\ file_uploads = <<>>
    /\ InitUpload
    /\ authcall = NoAuthCall
    /\ schema = MigratedSchema
    /\ tagcall \in { TagCall(w, k) :
                        w \in UNION {[1 .. n -> Vocabulary] : n \in 0 .. MaxWords},
                        k \in 0 .. MaxTags }

ExtractTags ==
    /\ tagcall.pc = "input"
    /\ tagcall' = [tagcall EXCEPT
            !.pc = "done",
            !.tags = extract_tags_from_text(Join(tagcall.words), tagcall.max_tags)]
    /\ UNCHANGED <<mainvars, upvars, authcall, schema>>

NextTags == ExtractTags

SpecTags == InitTags /\ [][NextTags]_vars

\* ------------------------------------ migrate_db.py, database.py init_db
\* Base.metadata.create_all: creates the tables that do not exist and leaves
\* an existing table as it is.
create_all(db) ==
    [file_uploads |-> IF db.file_uploads.exists THEN db.file_uploads ELSE NewFileUploads,
     user_storage |-> IF db.user_storage.exists THEN db.user_storage ELSE NewUserStorage]

\* Which statements raise in one run.
Failures == [create : BOOLEAN, add : BOOLEAN, drop : BOOLEAN, fallback : BOOLEAN]

\* migrate_database: when a table is missing, create_all and return; else
\* ADD COLUMN file_search_store_name when it is missing and DROP COLUMN
\* gemini_file_uri when it is there, in one transaction (rolled back when a
\* statement raises).
migrate_database(db, fail) ==
    IF ~db.file_uploads.exists \/ ~db.user_storage.exists
    THEN IF fail.create THEN [db |-> db, raised |-> TRUE]
         ELSE [db |-> create_all(db), raised |-> FALSE]
    ELSE IF \/ ~db.file_uploads.store_col /\ fail.add
            \/ db.file_uploads.legacy_col /\ fail.drop
         THEN [db |-> db, raised |-> TRUE]
         ELSE [db |-> [db EXCEPT !.file_uploads.store_col = TRUE,
                                 !.file_uploads.legacy_col = FALSE],
               raised |-> FALSE]

\* The databases init_db can find: each table absent, or present with some
\* rows; file_uploads with or without either column.
StartingDatabases ==
    { [file_uploads |-> fu, user_storage |-> us] :
        fu \in {NoTable} \cup { Table(TRUE, n, sc, lc) : n \in 0 .. MaxRows, sc \in BOOLEAN, lc \in BOOLEAN },
        us \in {NoTable} \cup { Table(TRUE, n, FALSE, FALSE) : n \in 0 .. MaxRows } }

InitSchema ==
    /\ InitMain
    /\ file_uploads = <<>>
    /\ InitUpload
    /\ authcall = NoAuthCall
    /\ tagcall = NoTagCall
    /\ schema \in { Schema(db) : db \in StartingDatabases }

\* init_db: the migration; when it raises, create_all as the fallback; the
\* exception leaves init_db only when the fallback raises as well.
init_db ==
    /\ schema.runs < MaxRuns
    /\ \E fail \in Failures :
          LET m == migrate_database(schema.db, fail)
              returns == ~m.raised \/ ~fail.fallback
              after == IF ~m.raised THEN m.db
                       ELSE IF fail.fallback THEN schema.db
                       ELSE create_all(schema.db)
          IN  schema' = [db |-> after, before |-> schema.db, runs |-> schema.runs + 1,
                         ok |-> returns, ok_before |-> schema.ok, raised |-> m.raised]
    /\ UNCHANGED <<mainvars, upvars, authcall, tagcall>>

NextSchema == init_db

SpecSchema == InitSchema /\ [][NextSchema]_vars

\* ============================================================ claims
\* A request whose handler has returned (the response is not yet sent).
Returned(r, op) == req[r].pc = "done" /\ req[r].op = op /\ req[r].auth_case = "identified"

\* The tables as they were when the request arrived are the tables now.
DbUntouched(r) == file_uploads = req[r].files0 /\ user_storage = req[r].storage0

StoresOf(u) == {i \in DOMAIN stores : stores[i].owner = u}
StoresBy(u, op) == {i \in StoresOf(u) : stores[i].by = op}
UploadedRows(u) == {i \in RowIds(file_uploads, u) : ~file_uploads[i].legacy}

\* C1: when an upload returns 200 and no earlier upload of the tenant ended
\* in 500, the tenant's total_storage_kb is the sum of file_size_kb over
\* its file_uploads rows, and the response reports that total.
C1_TotalIsSumAfterUpload ==
    \A r \in Procs :
        (Returned(r, "upload") /\ req[r].status = HTTP_200 /\ ~uploadErr[req[r].user_id])
        => /\ user_storage[req[r].user_id] = SumKb(file_uploads, req[r].user_id)
           /\ req[r].total_storage_kb = user_storage[req[r].user_id]

\* C1 witness: a second successful upload of a tenant has returned.
C1_Witness ==
    \E r \in Procs :
        /\ Returned(r, "upload") /\ req[r].status = HTTP_200
        /\ ~uploadErr[req[r].user_id]
        /\ Cardinality(UploadedRows(req[r].user_id)) >= 2

\* C2 (as claimed): every committed state of the two tables has each
\* tenant's total equal to the sum over its rows, and an upload that failed
\* on the storage commit has left no row behind.
C2_CommittedTogether ==
    /\ \A u \in Tenants : TotalKb(user_storage, u) = SumKb(file_uploads, u)
    /\ \A r \in Procs :
          (req[r].pc = "done" /\ req[r].fault = "storage_commit")
          => file_uploads = req[r].files0

\* What C3 calls an unacceptable upload.
C3_Unacceptable(f) ==
    \/ Len(f.filename) < 4
    \/ SubSeq(f.filename, Len(f.filename) - 3, Len(f.filename)) # <<".", "t", "x", "t">>
    \/ f.bytes > 102400 * 1024
    \/ ~f.utf8

\* C3: an upload with a name not ending in .txt, more than 102400 KB, or
\* bytes that are not UTF-8 returns 400 with no remote call made and no row
\* written or changed; any other upload, one of exactly 102400 KB included,
\* is not answered 400.
C3_RejectedBeforeRemoteCall ==
    \A r \in Procs :
        Returned(r, "upload")
        => /\ C3_Unacceptable(req[r].file) <=> req[r].status = HTTP_400
           /\ req[r].status = HTTP_400
                 => req[r].calls = 0 /\ DbUntouched(r)
                    /\ req[r].file_search_store_name = NULL

\* C3 witness: an upload one byte over the limit was refused on a database
\* that holds the row of an upload of exactly the limit.
C3_Witness ==
    \E r \in Procs :
        /\ Returned(r, "upload")
        /\ req[r].status = HTTP_400
        /\ req[r].file.bytes = 102400 * 1024 + 1
        /\ \E i \in DOMAIN file_uploads : file_uploads[i].file_size_kb = 102400 * 1024

\* C4 (as claimed): a request whose verify call is rejected, whose identity
\* fetch fails, or whose identity payload holds no recognized id field ends
\* with 401, with no remote call made and no row written.
C4_AuthFailureIs401 ==
    \A r \in Procs :
        (req[r].pc = "done" /\ req[r].auth_case \in {"verify_rejected", "me_failed", "no_id"})
        => req[r].status = HTTP_401 /\ req[r].calls = 0 /\ DbUntouched(r)

\* C5: an ask by a tenant that had no file_uploads row returns 404 with no
\* remote call made (no store created, no document uploaded, no generation).
C5_AskWithoutFilesIs404 ==
    \A r \in Procs :
        (Returned(r, "prompt") /\ RowIds(req[r].files0, req[r].user_id) = {})
        => /\ req[r].status = HTTP_404
           /\ req[r].calls = 0
           /\ req[r].file_search_store_name = NULL
           /\ DbUntouched(r)

\* C5 witness: such an ask returned while another tenant has rows and a store.
C5_Witness ==
    \E r \in Procs :
        /\ Returned(r, "prompt")
        /\ RowIds(req[r].files0, req[r].user_id) = {}
        /\ file_uploads # <<>>
        /\ stores # <<>>

\* The store names a tenant's rows carry.
C6_StoreNames(rows, u) ==
    {rows[i].file_search_store_name : i \in RowIds(rows, u)} \ {0}

\* C6: while no upload of a tenant has ended in 500, the uploads of the
\* tenant have created at most one store, all rows they wrote carry one
\* store name, and an upload that found a row with a store name made no
\* creation call: its only remote call is the document upload, into a
\* store name the tenant's rows already carried.
C6_StoreReuse ==
    \A u \in Tenants :
        ~uploadErr[u]
        => /\ Cardinality(StoresBy(u, "upload")) <= 1
           /\ \A i, j \in UploadedRows(u) :
                 file_uploads[i].file_search_store_name = file_uploads[j].file_search_store_name
           /\ \A r \in Procs :
                 (Returned(r, "upload") /\ req[r].user_id = u /\ req[r].status = HTTP_200
                  /\ C6_StoreNames(req[r].files0, u) # {})
                 => /\ req[r].calls = 1
                    /\ req[r].file_search_store_name \in C6_StoreNames(req[r].files0, u)

\* C6 witness: a tenant's second upload has returned, with one store created.
C6_Witness ==
    \E r \in Procs :
        /\ Returned(r, "upload") /\ req[r].status = HTTP_200
        /\ ~uploadErr[req[r].user_id]
        /\ Cardinality(UploadedRows(req[r].user_id)) >= 2
        /\ Cardinality(StoresBy(req[r].user_id, "upload")) = 1

\* C7 (as claimed): no tenant ever has more than one remote store created.
C7_AtMostOneStorePerTenant ==
    \A u \in Tenants : Cardinality(StoresOf(u)) <= 1

\* C8: an upload in which the store creation raised or upload_file returned
\* None ends with 500 and leaves both tables as they were.
C8_UploadFailureLeavesNoRow ==
    \A r \in Procs :
        (Returned(r, "upload") /\ req[r].fault \in {"create", "upload"})
        => req[r].status = HTTP_500 /\ DbUntouched(r)

\* C8 witness: upload_file returned None after a store was created, on a
\* database that holds rows.
C8_Witness ==
    \E r \in Procs :
        /\ Returned(r, "upload") /\ req[r].fault = "upload"
        /\ req[r].calls = 2
        /\ file_uploads # <<>>

\* C9 (as claimed): when an ask returns 200, every row of the tenant carries
\* the resolved store name, and its content has been uploaded into that
\* store.
C9_AskHealsEveryRow ==
    \A r \in Procs :
        (Returned(r, "prompt") /\ req[r].status = HTTP_200)
        => \A i \in RowIds(file_uploads, req[r].user_id) :
              /\ file_uploads[i].file_search_store_name = req[r].file_search_store_name
              /\ req[r].file_search_store_name \in file_uploads[i].uploaded_to

\* What C10 states of every state of upload_file: the wait is a multiple
\* of the interval and at most the ceiling, one status fetch was made per
\* interval waited (after the first), an operation only ever seen pending
\* ends in the timeout failure at the ceiling, and an operation last seen
\* done, with no error, ends in success.
C10_PollBounds ==
    /\ wait_time <= 300
    /\ wait_time % 2 = 0
    /\ fetches >= 1 => fetches = 1 + wait_time \div 2
    /\ (upc = "returned" /\ seen = {"pending"})
          => result = "None" /\ wait_time = 300 /\ fetches = 151
    /\ (upc = "returned" /\ fetches >= 1 /\ Kind(operation_obj) = "done")
          => result = "store" /\ wait_time <= 300

\* C10: upload_file always returns, and C10_PollBounds holds throughout.
C10_UploadTerminates == [](C10_PollBounds) /\ <>(upc = "returned")

\* C10 witness: the call timed out on an operation that never reported
\* done or error.
C10_Witness ==
    upc = "returned" /\ seen = {"pending"} /\ wait_time = 300 /\ result = "None"

\* C11: verify_token treats the answer of /auth/verify as valid exactly when
\* the status is 200 and the "valid" key is the boolean true or the string
\* "true"; every other value of the key is a failure, and /auth/me is called
\* exactly after a valid answer.
C11_ValidOnlyTrueOrStringTrue ==
    authcall.pc # "input"
    => (authcall.info.me_called
        <=> /\ ~authcall.verify.resp.net
            /\ authcall.verify.resp.status = HTTP_200
            /\ authcall.verify.valid \in {JBool(TRUE), JStr("true")})

\* The value the claimed search order yields: the first non-empty value of
\* the nested user object's id fields, then of the top-level id fields.
C12_NonEmpty(v) ==
    /\ v.t \notin {"absent", "null"}
    /\ v.t = "str" => v.s # ""
    /\ v.t = "num" => v.n # 0

C12_FirstNonEmpty(p) ==
    LET vals == (IF p.user.t = "obj" THEN ObjVals(p.user.o) ELSE <<>>) \o ObjVals(p.top)
        hits == {i \in DOMAIN vals : C12_NonEmpty(vals[i])}
    IN  vals[CHOOSE i \in hits : \A j \in hits : i <= j]

\* C12: the tenant key handlers read (current_user["user_id"]) is the string
\* form of the first non-empty id value, searching the nested user object's
\* fields and then the top-level fields; a nested match wins over every
\* top-level field and the key is always a string.
C12_KeyIsFirstNonEmptyId ==
    (authcall.pc = "done" /\ authcall.user.status = HTTP_200)
    => authcall.user.key = JStr(PyStr(C12_FirstNonEmpty(authcall.me.payload)))

\* What the statement about tags is measured against: the word a text item
\* stands for, how often a word occurs among the items of the text, and where
\* it occurs first.
C13_Occurrences(tag) ==
    {i \in DOMAIN tagcall.words :
        [j \in DOMAIN tagcall.words[i] |-> Lower(tagcall.words[i][j])] = tag}

C13_Frequency(tag) == Cardinality(C13_Occurrences(tag))

C13_FirstSeen(tag) == CHOOSE i \in C13_Occurrences(tag) : \A j \in C13_Occurrences(tag) : i <= j

\* C13: for every text and every max_tags >= 0, extract_tags_from_text
\* returns at most max_tags tags; each is a lower-case alphabetic word of
\* the text longer than three characters that is no stop word; no tag occurs
\* twice; tags come in non-increasing frequency, ties in first-seen order;
\* the empty text yields the empty list.
C13_TagsWellFormedAndRanked ==
    tagcall.pc = "done" =>
        LET tags == tagcall.tags
        IN  /\ Len(tags) <= tagcall.max_tags
            /\ \A i \in DOMAIN tags :
                  /\ \A j \in DOMAIN tags[i] : tags[i][j] \in Letters
                  /\ Len(tags[i]) > 3
                  /\ tags[i] \notin stop_words
                  /\ C13_Frequency(tags[i]) >= 1
            /\ \A i, j \in DOMAIN tags : i < j =>
                  /\ tags[i] # tags[j]
                  /\ \/ C13_Frequency(tags[i]) > C13_Frequency(tags[j])
                     \/ /\ C13_Frequency(tags[i]) = C13_Frequency(tags[j])
                        /\ C13_FirstSeen(tags[i]) < C13_FirstSeen(tags[j])
            /\ tagcall.words = <<>> => tags = <<>>

\* C13 witness: "alpha beta beta gamma" with max_tags 2 has returned
\* beta, alpha: the most frequent word first, the tie between alpha and gamma
\* broken by first occurrence, gamma cut off.
C13_Witness ==
    /\ tagcall.pc = "done"
    /\ tagcall.words = << <<"a", "l", "p", "h", "a">>, <<"b", "e", "t", "a">>,
                          <<"b", "e", "t", "a">>, <<"g", "a", "m", "m", "a">> >>
    /\ tagcall.max_tags = 2
    /\ tagcall.tags = << <<"b", "e", "t", "a">>, <<"a", "l", "p", "h", "a">> >>

\* C14: from every starting database, a run of init_db that returns
\* normally (none of its statements raising) leaves both tables existing,
\* file_uploads with the column file_search_store_name and without
\* gemini_file_uri, and every existing row kept; a second such run changes
\* nothing.
C14_InitSchemaIdempotent ==
    (schema.runs >= 1 /\ schema.ok /\ ~schema.raised) =>
        /\ schema.db.file_uploads.exists /\ schema.db.user_storage.exists
        /\ schema.db.file_uploads.store_col
        /\ ~schema.db.file_uploads.legacy_col
        /\ schema.db.file_uploads.rows = schema.before.file_uploads.rows
        /\ schema.db.user_storage.rows = schema.before.user_storage.rows
        /\ (schema.runs >= 2 /\ schema.ok_before) => schema.db = schema.before

\* C15: when upload_file has returned, on whatever path (success, backend
\* error, timeout, status that cannot be determined, exception of the
\* submission, failure while writing the temporary file), the temporary file
\* no longer exists.
C15_TempFileRemoved == upc = "returned" => ~tmp_exists

\* C19: whenever a status fetch raises, the first fetch or a re-fetch of the
\* loop, the call returns: the store name if the accumulated wait is at most
\* 60, failure if it exceeds 60.
C19_RaisingFetchReturns ==
    last_fetch = "raise" =>
        /\ upc = "returned"
        /\ result = IF wait_time <= give_up_after THEN "store" ELSE "None"

\* C20: as soon as a fetched status carries an error, the first fetch or a
\* re-fetch, the call returns failure without a further wait or poll; it
\* never returns the store name when the last fetched status carried an error.
C20_ErrorEndsCall ==
    last_fetch = "error" =>
        /\ upc # "sleep"
        /\ upc = "returned" => result = "None"

\* No request is under way in either slot.
Quiescent == \A r \in ConcProcs : req[r].pc \in {"idle", "done"}

\* C16: for every interleaving of two uploads of one tenant, once both have
\* finished the tenant's total_storage_kb is the sum of file_size_kb over its
\* committed rows: no increment is lost to the read-modify-write of the
\* total, and no request fails on seeding the user_storage row after its
\* file_uploads row was committed.
C16_NoLostIncrement ==
    /\ \A u \in Tenants :
          (Quiescent /\ ~uploadErr[u]) => TotalKb(user_storage, u) = SumKb(file_uploads, u)
    /\ \A r \in ConcProcs : req[r].fault # "seed_clash"

\* An upload whose lookup found no store-named record and which has a store.
C17_Racer(r) ==
    /\ req[r].op = "upload"
    /\ req[r].existing_store_name = NULL
    /\ req[r].file_search_store_name # NULL

\* C17: uploads of one tenant that both looked up no store-named record each
\* create a remote store of their own: their store names differ, each names a
\* store created for the tenant, and the row each commits carries the name
\* it created, so the tenant ends with rows under two different store names.
C17_EachRacerCreatesAStore ==
    /\ \A r1, r2 \in ConcProcs :
          (r1 # r2 /\ C17_Racer(r1) /\ C17_Racer(r2) /\ req[r1].user_id = req[r2].user_id)
          => req[r1].file_search_store_name # req[r2].file_search_store_name
    /\ \A r \in ConcProcs :
          C17_Racer(r) => /\ req[r].file_search_store_name \in StoresBy(req[r].user_id, "upload")
                          /\ (req[r].pc = "done" /\ req[r].status = HTTP_200)
                             => \E i \in UploadedRows(req[r].user_id) :
                                   file_uploads[i].file_search_store_name = req[r].file_search_store_name

\* C17 witness: two uploads of one tenant, both started while the tenant had
\* no store-named record, have both returned 200 and the tenant's rows carry
\* two different store names.
C17_Witness ==
    /\ \A r \in ConcProcs :
          /\ Returned(r, "upload") /\ req[r].status = HTTP_200
          /\ req[r].user_id = req[1].user_id
          /\ FirstStoreNames(req[r].files0, req[r].user_id) = {NULL}
    /\ \E i, j \in UploadedRows(req[1].user_id) :
          /\ file_uploads[i].file_search_store_name # NULL
          /\ file_uploads[j].file_search_store_name # NULL
          /\ file_uploads[i].file_search_store_name # file_uploads[j].file_search_store_name

\* The request is at a call of the document search client: store creation,
\* document upload (with its poll loop), prompt generation.
C18_InExternalCall(r) ==
    \/ req[r].pc \in {"u_upload", "p_heal"}
    \/ req[r].pc \in {"u_store", "p_store"} /\ req[r].existing_store_name = NULL

\* C18: while a request is at an external call of the document search
\* client, a request of another tenant that waits for its handler to run can
\* take its next step: the handler has given up control at the call.
C18_UnrelatedRequestProceeds ==
    \A r, q \in ConcProcs :
        (/\ r # q
         /\ C18_InExternalCall(r)
         /\ req[q].pc \in {"upload", "prompt", "files", "storage"}
         /\ req[q].user_id # req[r].user_id)
        => ENABLED LoopStep(q)

\* The non-null store name of the tenant's most recently uploaded record
\* that has one, NULL when no record has one.
C21_MostRecentStoreName(rows, u) ==
    LET named == {i \in RowIds(rows, u) : rows[i].file_search_store_name # NULL}
    IN  IF named = {} THEN NULL
        ELSE rows[CHOOSE i \in named : \A j \in named : j <= i].file_search_store_name

\* C21: upload and ask resolve the tenant's existing store to the non-null
\* store name of the most recently uploaded record, also when the tenant's
\* records carry more than one non-null store name; the resolved name does
\* not depend on the order in which the database returns the rows.
C21_ResolvesMostRecentStore ==
    \A r \in Procs :
        req[r].pc \in {"u_store", "p_store"}
        => req[r].existing_store_name = C21_MostRecentStoreName(file_uploads, req[r].user_id)

\* C22: in every reachable state every file_uploads row has file_size_kb > 0
\* and a file_name ending in .txt; an upload of an empty .txt file creates
\* no row.
C22_RowsNonEmptyTxt ==
    \A i \in DOMAIN file_uploads :
        /\ file_uploads[i].file_size_kb > 0
        /\ Len(file_uploads[i].file_name) >= 4
        /\ SubSeq(file_uploads[i].file_name, Len(file_uploads[i].file_name) - 3,
                  Len(file_uploads[i].file_name)) = <<".", "t", "x", "t">>

\* The request has passed authentication with a tenant key and is under way
\* or has returned.
C23_Acting(r) == req[r].pc # "idle" /\ req[r].auth_case = "identified"

\* C23: tenant isolation. From its arrival on, a request authenticated as a
\* tenant has changed only that tenant's file_uploads rows and user_storage
\* row: every row of another tenant is as it was when the request arrived,
\* every row added since belongs to the tenant, and the storage total of
\* every other tenant is as it was. The rows it loaded, returns or re-uploads
\* and the store it resolved belong to the tenant. A list-files or
\* storage-info request has changed no row at all.
C23_TenantIsolation ==
    \A r \in SeqProcs :
        C23_Acting(r) =>
            LET u == req[r].user_id
                rows0 == req[r].files0
            IN  /\ Len(file_uploads) >= Len(rows0)
                /\ \A i \in DOMAIN rows0 :
                      rows0[i].user_id # u => file_uploads[i] = rows0[i]
                /\ \A i \in DOMAIN file_uploads \ DOMAIN rows0 :
                      file_uploads[i].user_id = u
                /\ \A b \in Tenants \ {u} : user_storage[b] = req[r].storage0[b]
                /\ \A k \in DOMAIN req[r].files :
                      file_uploads[req[r].files[k]].user_id = u
                /\ \A k \in DOMAIN req[r].missing :
                      file_uploads[req[r].missing[k]].user_id = u
                /\ req[r].file_search_store_name # NULL
                      => req[r].file_search_store_name \in StoresOf(u)
                /\ req[r].op \in {"files", "storage"} => DbUntouched(r)

\* C23 witness: an ask of a tenant has returned 200 after it re-uploaded and
\* updated a row of its own, while the table held a row of another tenant.
C23_Witness ==
    \E r \in SeqProcs :
        /\ Returned(r, "prompt") /\ req[r].status = HTTP_200
        /\ file_uploads # req[r].files0
        /\ \E i \in DOMAIN req[r].files0 : req[r].files0[i].user_id # req[r].user_id
====
